---- MODULE Spec2Model ----
(***************************************************************************)
(* State machine of the queue viewer component, src/src/App.tsx.           *)
(*                                                                         *)
(* The component is single-threaded: every handler and every continuation  *)
(* of an async function runs to its next await without interleaving.  An   *)
(* async invocation that awaits twice in a row without writing component   *)
(* state in between (fetch(), then response.json() or response.text()) is  *)
(* one settle step here, whose outcome says which of the awaits rejected.  *)
(*                                                                         *)
(* The two HTTP endpoints are external: a settle step draws the outcome of *)
(* its request from the small sets below.                                  *)
(*                                                                         *)
(* Spec is one session of the mounted view, begun with nothing persisted.  *)
(* LifeSpec adds the teardown of the view, StoreSpec what a session can    *)
(* find persisted and the reload of the page, FairSpec fairness of the     *)
(* network, RaceSpec a server whose answers are its queue list, ViewSpec   *)
(* the sort and filter controls over the snapshot of the first fetch, and  *)
(* PanelSpec those controls next to the fetches of purge and delete.       *)
(* In these the fetchQueues that a purge or delete awaits and the finally   *)
(* block that follows it are one step, for nothing of the view runs        *)
(* between the two; StepSpec takes them one after the other.               *)
(***************************************************************************)
EXTENDS Bags, FiniteSets, Integers, Sequences, TLC

VARIABLES
    mounted,              \* the mount effects have run
    unmounted,            \* the view has been torn down (effect cleanups have run)
    queues,               \* useState<Queue[]>
    loading,              \* useState(true)
    error,                \* useState<string | null>
    lastUpdate,           \* useState<Date | null>
    operationInProgress,  \* useState<{[queueName]: 'purging' | 'deleting'}>
    favorites,            \* useState<Set<string>>: its members in insertion order
    storage,              \* localStorage entry 'sqsQueueViewerFavorites'
    savePending,          \* favorites was set and the save effect has not yet run
    sortField,            \* useState<SortField>('visible')
    sortOrder,            \* useState<SortOrder>('desc')
    filterText,           \* useState(''): the characters of the text
    filterType,           \* useState<FilterType>('all')
    polls,                \* fetchQueues invocations of mount and timer in flight
    ops,                  \* bag of purgeQueue / deleteQueue invocations in flight
    delivered,            \* history: data of the last parsed statistics response, <<>> before it
    settled,              \* history: some fetchQueues invocation has finished
    lastEvent,            \* history: what the last step finished or declined, if it did
    before,               \* history: the favorites of the session the last reload ended
    server,               \* RaceSpec: the queue list of the server
    replies,              \* RaceSpec: statistics responses on their way, by request
    clock                 \* RaceSpec: time since the last purge/delete finished

vars == <<mounted, unmounted, queues, loading, error, lastUpdate,
          operationInProgress, favorites, storage, savePending, sortField,
          sortOrder, filterText, filterType, polls, ops, delivered, settled,
          lastEvent, before, server, replies, clock>>

\* The sort and filter criteria of the view.
criteria == <<sortField, sortOrder, filterText, filterType>>

\* What the steps of the view leave alone; the handlers of the sort and
\* filter controls say themselves what they leave alone.
Aside == UNCHANGED <<criteria, before, server, replies, clock>>

----------------------------------------------------------------------------
(* Bounds *)

MaxTime == 1     \* latest reading of the clock
MaxPolls == 2    \* timer/mount statistics fetches in flight at once
MaxOps == 2      \* purge/delete invocations in flight at once

----------------------------------------------------------------------------
(* Values *)

\* null in error: a message has at least one piece.
NULL == <<>>

\* null in lastUpdate: a Date is a time of the clock, 0 or later.
NoDate == -1

Names == {"orders", "orders.fifo"}

Q(n, v, i, d) ==
    [name |-> n,
     statistics |-> [approximateNumberOfInvisibleMessages |-> i,
                     approximateNumberOfMessagesDelayed |-> d,
                     approximateNumberOfVisibleMessages |-> v]]

\* Bodies the statistics endpoint answers with (JSON arrays of queues).
Responses ==
    { <<>>,
      <<Q("orders", 5, 2, 0), Q("orders.fifo", 1, 0, 3)>>,
      <<Q("orders.fifo", 1, 0, 3)>> }

\* Non-2xx statuses, as they print in a template string.
Statuses == {"500"}

StatusText(status) == IF status = "500" THEN "Internal Server Error" ELSE ""

\* Bodies the control endpoint sends with a non-2xx answer.
Bodies == {"<ErrorResponse/>"}

\* Messages of the Errors that fetch(), response.json() and response.text()
\* reject with (the text is the browser's).
RejectMessages == {"Failed to fetch"}

Outcome(res, status, text, data) ==
    [res |-> res, status |-> status, text |-> text, data |-> data]

\* What one statistics request can come to.
StatsOutcomes ==
    {Outcome("ok", "200", "", d) : d \in Responses}
        \cup {Outcome("http", s, "", <<>>) : s \in Statuses}
        \cup {Outcome("reject", "", m, <<>>) : m \in RejectMessages}

\* What one control request can come to: 2xx, non-2xx with its body read,
\* non-2xx whose body read rejects, or fetch() rejecting.
ControlOutcomes ==
    {Outcome("ok", "200", "", <<>>)}
        \cup {Outcome("http", s, b, <<>>) : s \in Statuses, b \in Bodies}
        \cup {Outcome("httpNoBody", s, m, <<>>) : s \in Statuses, m \in RejectMessages}
        \cup {Outcome("reject", "", m, <<>>) : m \in RejectMessages}

NoOutcome == Outcome("-", "", "", <<>>)

\* A message is the sequence of the pieces its template string joins.
Contains(msg, piece) == \E i \in 1..Len(msg) : msg[i] = piece

\* lastEvent: "poll", a fetchQueues of mount or timer finished with outcome;
\* "opFailed", the control request of a purge or delete on name failed with
\* outcome and the invocation finished; "opRefreshed", the fetchQueues a purge
\* or delete awaited finished with outcome, and so the invocation; "decline",
\* confirm() was answered no; "other", any other step.  calls and fetches count
\* the control and the statistics requests the invocation has made.
Event(type, name, kind, outcome, calls, fetches) ==
    [type |-> type, name |-> name, kind |-> kind, outcome |-> outcome,
     calls |-> calls, fetches |-> fetches]

QueueNames(data) == {data[i].name : i \in 1..Len(data)}

----------------------------------------------------------------------------
(* React *)

\* Mutant: the state lives outside the component and outlives it.
SetAfterUnmount(old, new) == new

\* A state setter, from the value the state has to the value it is given.
\* The component holds its state with useState, and React drops the update
\* of a component that has been unmounted.
Set(old, new) == IF unmounted THEN old ELSE new

----------------------------------------------------------------------------
(* Favorites and their persisted entry *)

\* A JS Set<string> is the sequence of its members in insertion order.
Members(f) == {f[i] : i \in 1..Len(f)}

Has(f, name) == name \in Members(f)

\* new Set(iterable) of a sequence: the first occurrence of each value.
RECURSIVE NewSet(_)
NewSet(items) ==
    IF items = <<>> THEN <<>>
    ELSE LET front == NewSet(SubSeq(items, 1, Len(items) - 1))
             last == items[Len(items)]
         IN  IF Has(front, last) THEN front ELSE Append(front, last)

\* JSON text is a sequence of tokens: punctuation, null, or a string literal
\* with the string it denotes.
Tok(k, s) == [k |-> k, s |-> s]

LB == Tok("[", "")

RB == Tok("]", "")

LC == Tok("{", "")

RC == Tok("}", "")

Comma == Tok(",", "")

Null == Tok("null", "")

Str(s) == Tok("string", s)

RECURSIVE StringifyItems(_)
StringifyItems(items) ==
    IF items = <<>> THEN <<>>
    ELSE IF Len(items) = 1 THEN <<Str(items[1])>>
    ELSE <<Str(items[1]), Comma>> \o StringifyItems(Tail(items))

\* JSON.stringify(Array.from(favorites))
Stringify(f) == <<LB>> \o StringifyItems(f) \o <<RB>>

\* A JS value JSON.parse returns, or the SyntaxError it throws.  items: the
\* elements of an array, the one string of a string.
Value(type, items) == [type |-> type, items |-> items]

SyntaxError == Value("SyntaxError", <<>>)

\* The elements between the brackets, at least one.
RECURSIVE ParseElements(_)
ParseElements(ts) ==
    IF ts[1].k # "string" THEN SyntaxError
    ELSE IF Len(ts) = 1 THEN Value("array", <<ts[1].s>>)
    ELSE IF ts[2] # Comma \/ Len(ts) < 3 THEN SyntaxError
    ELSE LET rest == ParseElements(SubSeq(ts, 3, Len(ts)))
         IN  IF rest = SyntaxError THEN SyntaxError
             ELSE Value("array", <<ts[1].s>> \o rest.items)

\* JSON.parse(text)
Parse(text) ==
    IF text = <<Null>> THEN Value("null", <<>>)
    ELSE IF Len(text) = 1 /\ text[1].k = "string"
      THEN Value("string", <<text[1].s>>)
    ELSE IF text = <<LC, RC>> THEN Value("object", <<>>)
    ELSE IF Len(text) >= 2 /\ text[1] = LB /\ text[Len(text)] = RB
      THEN IF Len(text) = 2 THEN Value("array", <<>>)
           ELSE ParseElements(SubSeq(text, 2, Len(text) - 1))
    ELSE SyntaxError

\* The characters a string iterates over, for the strings over Alphabet.
Alphabet == {"a", "b"}

RECURSIVE Join(_)
Join(chars) == IF chars = <<>> THEN "" ELSE Head(chars) \o Join(Tail(chars))

CodePoints(str) ==
    CHOOSE chars \in UNION {[1..n -> Alphabet] : n \in 0..2} : Join(chars) = str

\* localStorage.getItem(key): null, or the text stored.
NoEntry == [present |-> FALSE, text |-> <<>>]

Entry(text) == [present |-> TRUE, text |-> text]

\* The load effect: whether it calls setFavorites, and with which Set.
\* `if (savedFavorites)` skips null and the empty text; JSON.parse throwing
\* and new Set() throwing (a value that is not iterable) are both caught.
LoadFavorites(entry) ==
    IF ~entry.present \/ entry.text = <<>>
      THEN [set |-> FALSE, value |-> <<>>]
    ELSE LET v == Parse(entry.text)
         IN  IF v.type = "array" THEN [set |-> TRUE, value |-> NewSet(v.items)]
             ELSE IF v.type = "string"
               THEN [set |-> TRUE, value |-> NewSet(CodePoints(v.items[1]))]
             ELSE IF v.type = "null" THEN [set |-> TRUE, value |-> <<>>]
             ELSE [set |-> FALSE, value |-> <<>>]

\* Entries a session can find: none, the empty text, what an earlier session
\* saved, and texts it did not save: cut short, an object, null, a string.
Entries ==
    { NoEntry,
      Entry(<<>>),
      Entry(Stringify(<<>>)),
      Entry(Stringify(<<"orders">>)),
      Entry(Stringify(<<"orders.fifo", "orders">>)),
      Entry(<<LB, Str("orders")>>),
      Entry(<<LC, RC>>),
      Entry(<<Null>>),
      Entry(<<Str("ab")>>) }

\* before: the members of favorites when the page was reloaded, and whether
\* every save effect had run by then; NoSession before the first reload.
Session(members, saved) == [members |-> members, saved |-> saved]

NoSession == Session({}, FALSE)

----------------------------------------------------------------------------
(* Sort and filter *)

SortFields == {"name", "type", "visible", "total", "invisible"}

SortOrders == {"asc", "desc"}

FilterTypes == {"all", "standard", "fifo", "withMessages", "favorites"}

\* Queue names of the snapshots the sort and filter controls are tried on:
\* two that differ in case only, two with the suffix in either case.
ViewNames == Names \cup {"Orders", "jobs.FIFO"}

\* The characters of the strings that are sorted or searched.
Chars(str) ==
    CASE str = "orders" -> <<"o", "r", "d", "e", "r", "s">>
      [] str = "Orders" -> <<"O", "r", "d", "e", "r", "s">>
      [] str = "orders.fifo" ->
            <<"o", "r", "d", "e", "r", "s", ".", "f", "i", "f", "o">>
      [] str = "jobs.FIFO" -> <<"j", "o", "b", "s", ".", "F", "I", "F", "O">>
      [] str = ".fifo" -> <<".", "f", "i", "f", "o">>
      [] str = "FIFO" -> <<"F", "I", "F", "O">>
      [] str = "Standard" -> <<"S", "t", "a", "n", "d", "a", "r", "d">>

Letters ==
    <<"a", "b", "c", "d", "e", "f", "g", "h", "i", "j", "k", "l", "m",
      "n", "o", "p", "q", "r", "s", "t", "u", "v", "w", "x", "y", "z">>

Capitals ==
    <<"A", "B", "C", "D", "E", "F", "G", "H", "I", "J", "K", "L", "M",
      "N", "O", "P", "Q", "R", "S", "T", "U", "V", "W", "X", "Y", "Z">>

\* String.prototype.toLowerCase
toLowerCase(s) ==
    [i \in 1..Len(s) |->
        IF \E k \in 1..Len(Capitals) : Capitals[k] = s[i]
          THEN Letters[CHOOSE k \in 1..Len(Capitals) : Capitals[k] = s[i]]
          ELSE s[i]]

\* String.prototype.includes
includes(s, t) ==
    \E k \in 0..(Len(s) - Len(t)) : SubSeq(s, k + 1, k + Len(t)) = t

RECURSIVE trimStart(_)
trimStart(s) ==
    IF s # <<>> /\ Head(s) = " " THEN trimStart(Tail(s)) ELSE s

RECURSIVE trimEnd(_)
trimEnd(s) ==
    IF s # <<>> /\ s[Len(s)] = " "
      THEN trimEnd(SubSeq(s, 1, Len(s) - 1)) ELSE s

\* String.prototype.trim, the white space of the model being the blank.
trim(s) == trimEnd(trimStart(s))

\* String.prototype.split(','): the pieces between the commas, empty ones too.
RECURSIVE split(_)
split(s) ==
    IF \E k \in 1..Len(s) : s[k] = ","
      THEN LET k == CHOOSE j \in 1..Len(s) :
                       s[j] = "," /\ \A h \in 1..(j - 1) : s[h] # ","
           IN  <<SubSeq(s, 1, k - 1)>> \o split(SubSeq(s, k + 1, Len(s)))
      ELSE <<s>>

\* Where a character stands in the order of localeCompare: the full stop
\* before every letter, the letters in the order of the alphabet, a capital
\* with its small letter.
Weight(c) ==
    IF c = "." THEN 0
    ELSE CHOOSE k \in 1..Len(Letters) : Letters[k] = c \/ Capitals[k] = c

\* String.prototype.localeCompare on strings that differ in more than case
\* or are the same: below zero, zero or above.
RECURSIVE localeCompare(_, _)
localeCompare(a, b) ==
    IF a = <<>> \/ b = <<>>
      THEN IF a = b THEN 0 ELSE IF a = <<>> THEN -1 ELSE 1
      ELSE IF Weight(Head(a)) # Weight(Head(b))
             THEN IF Weight(Head(a)) < Weight(Head(b)) THEN -1 ELSE 1
             ELSE localeCompare(Tail(a), Tail(b))

\* Mutant: the suffix counts in small letters only.
getQueueTypeSmallOnly(queueName) ==
    IF includes(Chars(queueName), Chars(".fifo")) THEN "FIFO" ELSE "Standard"

getQueueType(queueName) ==
    IF includes(toLowerCase(Chars(queueName)), Chars(".fifo"))
      THEN "FIFO" ELSE "Standard"

Total(queue) ==
    queue.statistics.approximateNumberOfVisibleMessages
      + queue.statistics.approximateNumberOfMessagesDelayed
      + queue.statistics.approximateNumberOfInvisibleMessages

\* valueA, valueB of the compare function of sortQueues.
SortValue(queue, field) ==
    CASE field = "name" -> toLowerCase(Chars(queue.name))
      [] field = "type" -> Chars(getQueueType(queue.name))
      [] field = "visible" ->
            queue.statistics.approximateNumberOfVisibleMessages
      [] field = "total" -> Total(queue)
      [] field = "invisible" ->
            queue.statistics.approximateNumberOfInvisibleMessages

\* The compare function of sortQueues.
Compare(a, b, field, order) ==
    LET valueA == SortValue(a, field)
        valueB == SortValue(b, field)
    IN  IF field \in {"name", "type"}
          THEN IF order = "asc" THEN localeCompare(valueA, valueB)
                                ELSE localeCompare(valueB, valueA)
          ELSE IF order = "asc" THEN valueA - valueB ELSE valueB - valueA

\* One more record in a sorted list: behind every record that the compare
\* function does not put behind it.
RECURSIVE Insert(_, _, _, _)
Insert(sorted, x, field, order) ==
    IF sorted = <<>> THEN <<x>>
    ELSE IF Compare(Head(sorted), x, field, order) > 0
           THEN <<x>> \o sorted
           ELSE <<Head(sorted)>> \o Insert(Tail(sorted), x, field, order)

\* Array.prototype.sort with the compare function of sortQueues: the sort is
\* stable (ECMAScript 2019), so there is one result.
RECURSIVE sort(_, _, _)
sort(data, field, order) ==
    IF data = <<>> THEN <<>>
    ELSE Insert(sort(SubSeq(data, 1, Len(data) - 1), field, order),
                data[Len(data)], field, order)

Reverse(list) == [i \in 1..Len(list) |-> list[Len(list) + 1 - i]]

\* Mutant: descending is the ascending list turned round.
sortQueuesTurning(data, field, order) ==
    IF order = "asc" THEN sort(data, field, "asc")
    ELSE Reverse(sort(data, field, "asc"))

\* Mutant: the list is sorted by the visible count whatever the field.
sortQueuesByVisible(data, field, order) == sort(data, "visible", order)

sortQueues(data, field, order) == sort(data, field, order)

\* The terms of the filter text.
FilterTerms(text) ==
    SelectSeq([i \in 1..Len(split(text)) |-> toLowerCase(trim(split(text)[i]))],
              LAMBDA term : Len(term) > 0)

\* The switch of filterQueues.
TypeFiltered(data, type, favs) ==
    CASE type = "standard" ->
            SelectSeq(data, LAMBDA queue : getQueueType(queue.name) = "Standard")
      [] type = "fifo" ->
            SelectSeq(data, LAMBDA queue : getQueueType(queue.name) = "FIFO")
      [] type = "withMessages" ->
            SelectSeq(data, LAMBDA queue : Total(queue) > 0)
      [] type = "favorites" ->
            SelectSeq(data, LAMBDA queue : Has(favs, queue.name))
      [] OTHER -> data

\* Mutant: a filter text without a term keeps nothing.
TextFilteredStrict(filtered, text) ==
    SelectSeq(filtered, LAMBDA queue :
        \E i \in 1..Len(FilterTerms(text)) :
            includes(toLowerCase(Chars(queue.name)), FilterTerms(text)[i]))

\* Mutant: a filter text without a term keeps everything.
TextFilteredLenient(filtered, text) ==
    IF FilterTerms(text) = <<>> THEN filtered
    ELSE SelectSeq(filtered, LAMBDA queue :
            \E i \in 1..Len(FilterTerms(text)) :
                includes(toLowerCase(Chars(queue.name)), FilterTerms(text)[i]))

\* The rest of filterQueues.
TextFiltered(filtered, text) ==
    IF trim(text) = <<>> THEN filtered
    ELSE SelectSeq(filtered, LAMBDA queue :
            \E i \in 1..Len(FilterTerms(text)) :
                includes(toLowerCase(Chars(queue.name)), FilterTerms(text)[i]))

filterQueues(data) ==
    TextFiltered(TypeFiltered(data, filterType, favorites), filterText)

getFilteredAndSortedQueues ==
    sortQueues(filterQueues(queues), sortField, sortOrder)

----------------------------------------------------------------------------
(* fetchQueues *)

\* err.message of what fetchQueues throws or has rejected under it.
FetchErrorMessage(o) ==
    IF o.res = "http" THEN <<"HTTP error! status: ", o.status>> ELSE <<o.text>>

\* The readings new Date() can give a fetchQueues that comes to outcome o: the
\* clock never runs backwards, and only the success path reads it.
Readings(o) ==
    IF o.res = "ok" THEN {t \in 0..MaxTime : t >= lastUpdate} ELSE {lastUpdate}

\* Mutant: the success path leaves the error as it is (no setError(null)).
FetchQueuesSettleKeepingError(o, t) ==
    /\ IF o.res = "ok"
         THEN /\ queues' = o.data
              /\ lastUpdate' = t
              /\ delivered' = o.data
              /\ UNCHANGED error
         ELSE /\ error' = FetchErrorMessage(o)
              /\ UNCHANGED <<queues, lastUpdate, delivered>>
    /\ loading' = FALSE
    /\ settled' = TRUE

\* Mutant: the catch block also empties the list (setQueues([])).
FetchQueuesSettleClearing(o, t) ==
    /\ IF o.res = "ok"
         THEN /\ queues' = o.data
              /\ error' = NULL
              /\ lastUpdate' = t
              /\ delivered' = o.data
         ELSE /\ error' = FetchErrorMessage(o)
              /\ queues' = <<>>
              /\ UNCHANGED <<lastUpdate, delivered>>
    /\ loading' = FALSE
    /\ settled' = TRUE

\* Mutant: the response is merged into the list (records of queues the
\* response does not name are kept) instead of replacing it.
FetchQueuesSettleMerging(o, t) ==
    /\ IF o.res = "ok"
         THEN /\ queues' = o.data \o SelectSeq(queues,
                               LAMBDA q : q.name \notin QueueNames(o.data))
              /\ error' = NULL
              /\ lastUpdate' = t
              /\ delivered' = o.data
         ELSE /\ error' = FetchErrorMessage(o)
              /\ UNCHANGED <<queues, lastUpdate, delivered>>
    /\ loading' = FALSE
    /\ settled' = TRUE

\* The state fetchQueues writes once its request has come to outcome o, at
\* time t.
\* Mutant: the response is stored sorted by the criteria of the moment.
FetchQueuesSettleSorting(o, t) ==
    /\ IF o.res = "ok"
         THEN /\ queues' = Set(queues, sortQueues(o.data, sortField, sortOrder))
              /\ error' = Set(error, NULL)
              /\ lastUpdate' = Set(lastUpdate, t)
              /\ delivered' = Set(delivered, o.data)
         ELSE /\ error' = Set(error, FetchErrorMessage(o))
              /\ UNCHANGED <<queues, lastUpdate, delivered>>
    /\ loading' = Set(loading, FALSE)
    /\ settled' = Set(settled, TRUE)

FetchQueuesSettle(o, t) ==
    /\ IF o.res = "ok"
         THEN /\ queues' = Set(queues, o.data)
              /\ error' = Set(error, NULL)
              /\ lastUpdate' = Set(lastUpdate, t)
              /\ delivered' = Set(delivered, o.data)
         ELSE /\ error' = Set(error, FetchErrorMessage(o))
              /\ UNCHANGED <<queues, lastUpdate, delivered>>
    /\ loading' = Set(loading, FALSE)
    /\ settled' = Set(settled, TRUE)

----------------------------------------------------------------------------
(* Component *)

\* The state of a session before its mount effects run, whatever is persisted.
Constructed ==
    /\ mounted = FALSE
    /\ unmounted = FALSE
    /\ queues = <<>>
    /\ loading = TRUE
    /\ error = NULL
    /\ lastUpdate = NoDate
    /\ operationInProgress = <<>>
    /\ favorites = <<>>
    /\ savePending = FALSE
    /\ sortField = "visible"
    /\ sortOrder = "desc"
    /\ filterText = <<>>
    /\ filterType = "all"
    /\ polls = 0
    /\ ops = EmptyBag
    /\ delivered = <<>>
    /\ settled = FALSE
    /\ lastEvent = Event("other", "-", "-", NoOutcome, 0, 0)
    /\ before = NoSession
    /\ server = <<Q("orders", 5, 2, 0), Q("orders.fifo", 1, 0, 3)>>
    /\ replies = <<>>
    /\ clock = "idle"

\* The first session: nothing is persisted.
Init == Constructed /\ storage = NoEntry

\* A session that finds an entry.
StoreInit == Constructed /\ storage \in Entries

\* Mutant: the save effect runs at mount and never after a render.
MountSavingOnce ==
    /\ ~mounted
    /\ mounted' = TRUE
    /\ LET loaded == LoadFavorites(storage)
       IN  /\ favorites' = IF loaded.set THEN loaded.value ELSE favorites
           /\ savePending' = FALSE
    /\ storage' = Entry(Stringify(favorites))
    /\ polls' = polls + 1
    /\ lastEvent' = Event("mount", "-", "-", NoOutcome, 0, 0)
    /\ UNCHANGED <<unmounted, queues, loading, error, lastUpdate,
                   operationInProgress, ops, delivered, settled>>

\* The mount effects, in the order of the source, and the render they ask
\* for: the load effect reads the entry and may call setFavorites; the save
\* effect writes the favorites of the first render, the empty Set; then
\* fetchQueues() and setInterval(fetchQueues, 1000).  When setFavorites was
\* called the next render has a new Set and the save effect is due again.
Mount ==
    /\ ~mounted
    /\ mounted' = TRUE
    /\ LET loaded == LoadFavorites(storage)
       IN  /\ favorites' = IF loaded.set THEN loaded.value ELSE favorites
           /\ savePending' = loaded.set
    /\ storage' = Entry(Stringify(favorites))
    /\ polls' = polls + 1
    /\ lastEvent' = Event("mount", "-", "-", NoOutcome, 0, 0)
    /\ UNCHANGED <<unmounted, queues, loading, error, lastUpdate,
                   operationInProgress, ops, delivered, settled>>

\* The cleanup of the interval effect: clearInterval(interval).  Effects of
\* the last render run before the commit that unmounts.
Unmount ==
    /\ mounted
    /\ ~unmounted
    /\ ~savePending
    /\ unmounted' = TRUE
    /\ lastEvent' = Event("other", "-", "-", NoOutcome, 0, 0)
    /\ UNCHANGED <<mounted, queues, loading, error, lastUpdate,
                   operationInProgress, favorites, storage, savePending,
                   polls, ops, delivered, settled>>

\* The page is reloaded: the session ends with all its requests, the entry
\* stays, and a new session is constructed.
Reload ==
    /\ mounted
    /\ before' = Session(Members(favorites), ~savePending)
    /\ mounted' = FALSE
    /\ unmounted' = FALSE
    /\ queues' = <<>>
    /\ loading' = TRUE
    /\ error' = NULL
    /\ lastUpdate' = NoDate
    /\ operationInProgress' = <<>>
    /\ favorites' = <<>>
    /\ savePending' = FALSE
    /\ sortField' = "visible"
    /\ sortOrder' = "desc"
    /\ filterText' = <<>>
    /\ filterType' = "all"
    /\ polls' = 0
    /\ ops' = EmptyBag
    /\ delivered' = <<>>
    /\ settled' = FALSE
    /\ lastEvent' = Event("other", "-", "-", NoOutcome, 0, 0)
    /\ UNCHANGED <<storage, server, replies, clock>>

\* Mutant: fetchQueues begins with setLoading(true).
TickSetsLoading ==
    /\ mounted
    /\ ~unmounted
    /\ polls < MaxPolls
    /\ polls' = polls + 1
    /\ loading' = TRUE
    /\ lastEvent' = Event("other", "-", "-", NoOutcome, 0, 0)
    /\ UNCHANGED <<mounted, unmounted, storage, savePending,
                   queues, error, lastUpdate, operationInProgress,
                   favorites, ops, delivered, settled>>

\* Mutant: the timer stops at the first error.
TickUntilError ==
    /\ mounted
    /\ ~unmounted
    /\ error = NULL
    /\ polls < MaxPolls
    /\ polls' = polls + 1
    /\ lastEvent' = Event("other", "-", "-", NoOutcome, 0, 0)
    /\ UNCHANGED <<mounted, unmounted, storage, savePending,
                   queues, loading, error, lastUpdate,
                   operationInProgress, favorites, ops, delivered, settled>>

\* Mutant: the interval effect has no cleanup.
TickWithoutCleanup ==
    /\ mounted
    /\ polls < MaxPolls
    /\ polls' = polls + 1
    /\ lastEvent' = Event("other", "-", "-", NoOutcome, 0, 0)
    /\ UNCHANGED <<mounted, unmounted, storage, savePending,
                   queues, loading, error, lastUpdate,
                   operationInProgress, favorites, ops, delivered, settled>>

\* The interval timer fires and starts fetchQueues, from setInterval until
\* the cleanup's clearInterval.
Tick ==
    /\ mounted
    /\ ~unmounted
    /\ polls < MaxPolls
    /\ polls' = polls + 1
    /\ lastEvent' = Event("other", "-", "-", NoOutcome, 0, 0)
    /\ UNCHANGED <<mounted, unmounted, storage, savePending,
                   queues, loading, error, lastUpdate,
                   operationInProgress, favorites, ops, delivered, settled>>

\* Mutant: a successful poll drops the favorites whose queue is gone.
PollSettlePruning(o, t) ==
    /\ polls > 0
    /\ polls' = polls - 1
    /\ FetchQueuesSettle(o, t)
    /\ favorites' = IF o.res = "ok"
                      THEN SelectSeq(favorites,
                                     LAMBDA m : m \in QueueNames(o.data))
                      ELSE favorites
    /\ savePending' = (o.res = "ok")
    /\ lastEvent' = Event("poll", "-", "-", o, 0, 1)
    /\ UNCHANGED <<mounted, unmounted, operationInProgress, storage, ops>>

\* A fetchQueues started by mount or timer finishes.
PollSettle(o, t) ==
    /\ polls > 0
    /\ polls' = polls - 1
    /\ FetchQueuesSettle(o, t)
    /\ lastEvent' = Event("poll", "-", "-", o, 0, 1)
    /\ UNCHANGED <<mounted, unmounted, storage, savePending,
                   operationInProgress, favorites, ops>>

\* The rows of the table: the records of the snapshot that pass the filter.
RowNames == QueueNames(getFilteredAndSortedQueues)

\* Mutant: the buttons lack the disabled attribute.
ButtonNeverDisabled(name) == name \in RowNames

\* The purge and delete buttons of a row: disabled={!!isOperationInProgress}.
ButtonEnabled(name) ==
    /\ name \in RowNames
    /\ name \notin DOMAIN operationInProgress

\* Mutant: every marker says purging.
WithMarkerPurging(prev, name, kind) ==
    [n \in DOMAIN prev \cup {name} |-> IF n = name THEN "purging" ELSE prev[n]]

\* Mutant: the marker is deleted from the map of the render in which the
\* invocation began, not from the latest one.
WithoutMarkerStale(prev, name) == <<>>

\* prev => ({ ...prev, [queueName]: kind })
WithMarker(prev, name, kind) ==
    [n \in DOMAIN prev \cup {name} |-> IF n = name THEN kind ELSE prev[n]]

\* prev => { const newState = { ...prev }; delete newState[queueName]; ... }
WithoutMarker(prev, name) ==
    [n \in DOMAIN prev \ {name} |-> prev[n]]

OpVerb(kind) == IF kind = "purging" THEN "purge" ELSE "delete"

\* Mutant: the thrown message leaves the response body out.
OpErrorMessageNoBody(kind, name, o) ==
    <<"Failed to " \o OpVerb(kind) \o " queue \"", name, "\": ">>
        \o (IF o.res = "http"
              THEN <<"Failed to " \o OpVerb(kind) \o " queue: ",
                     o.status, " ", StatusText(o.status)>>
              ELSE <<o.text>>)

\* The message the catch block of purgeQueue / deleteQueue sets.
OpErrorMessage(kind, name, o) ==
    <<"Failed to " \o OpVerb(kind) \o " queue \"", name, "\": ">>
        \o (IF o.res = "http"
              THEN <<"Failed to " \o OpVerb(kind) \o " queue: ",
                     o.status, " ", StatusText(o.status), " - ", o.text>>
              ELSE <<o.text>>)

\* Mutant: a confirmed invocation begins with setError(null).
StartOperationClearingError(kind, name, confirmed) ==
    /\ mounted
    /\ ~unmounted
    /\ ButtonEnabled(name)
    /\ IF confirmed
         THEN /\ BagCardinality(ops) < MaxOps
              /\ operationInProgress' = WithMarker(operationInProgress, name, kind)
              /\ ops' = ops (+) SetToBag({[name |-> name, kind |-> kind,
                                           pc |-> "control", calls |-> 1,
                                           fetches |-> 0]})
              /\ error' = NULL
              /\ lastEvent' = Event("other", "-", "-", NoOutcome, 0, 0)
         ELSE /\ UNCHANGED <<operationInProgress, ops, error>>
              /\ lastEvent' = Event("decline", name, kind, NoOutcome, 0, 0)
    /\ UNCHANGED <<mounted, unmounted, storage, savePending,
                   queues, loading, lastUpdate, favorites,
                   polls, delivered, settled>>

\* Mutant: the marker is set before confirm() is asked.
StartOperationMarkingFirst(kind, name, confirmed) ==
    /\ mounted
    /\ ~unmounted
    /\ ButtonEnabled(name)
    /\ operationInProgress' = WithMarker(operationInProgress, name, kind)
    /\ IF confirmed
         THEN /\ BagCardinality(ops) < MaxOps
              /\ ops' = ops (+) SetToBag({[name |-> name, kind |-> kind,
                                           pc |-> "control", calls |-> 1,
                                           fetches |-> 0]})
              /\ lastEvent' = Event("other", "-", "-", NoOutcome, 0, 0)
         ELSE /\ UNCHANGED ops
              /\ lastEvent' = Event("decline", name, kind, NoOutcome, 0, 0)
    /\ UNCHANGED <<mounted, unmounted, storage, savePending,
                   queues, loading, error, lastUpdate, favorites,
                   polls, delivered, settled>>

\* A click on the purge or delete button of a row, and the answer to confirm().
\* Confirmed, the invocation marks the queue and sends its control request.
StartOperation(kind, name, confirmed) ==
    /\ mounted
    /\ ~unmounted
    /\ ButtonEnabled(name)
    /\ IF confirmed
         THEN /\ BagCardinality(ops) < MaxOps
              /\ operationInProgress' = WithMarker(operationInProgress, name, kind)
              /\ ops' = ops (+) SetToBag({[name |-> name, kind |-> kind,
                                           pc |-> "control", calls |-> 1,
                                           fetches |-> 0]})
              /\ lastEvent' = Event("other", "-", "-", NoOutcome, 0, 0)
         ELSE /\ UNCHANGED <<operationInProgress, ops>>
              /\ lastEvent' = Event("decline", name, kind, NoOutcome, 0, 0)
    /\ UNCHANGED <<mounted, unmounted, storage, savePending,
                   queues, loading, error, lastUpdate, favorites,
                   polls, delivered, settled>>

purgeQueue(name, confirmed) == StartOperation("purging", name, confirmed)

deleteQueue(name, confirmed) == StartOperation("deleting", name, confirmed)

\* Mutant: the marker is removed at the end of the try block, not in finally.
OpControlSettleNoFinally(r, o) ==
    /\ BagIn(r, ops)
    /\ r.pc = "control"
    /\ IF o.res = "ok"
         THEN /\ ops' = (ops (-) SetToBag({r}))
                          (+) SetToBag({[r EXCEPT !.pc = "refresh",
                                                  !.fetches = @ + 1]})
              /\ lastEvent' = Event("other", "-", "-", NoOutcome, 0, 0)
              /\ UNCHANGED <<error, operationInProgress>>
         ELSE /\ error' = OpErrorMessage(r.kind, r.name, o)
              /\ ops' = ops (-) SetToBag({r})
              /\ lastEvent' = Event("opFailed", r.name, r.kind, o,
                                    r.calls, r.fetches)
              /\ UNCHANGED operationInProgress
    /\ UNCHANGED <<mounted, unmounted, storage, savePending,
                   queues, loading, lastUpdate, favorites, polls,
                   delivered, settled>>

\* Mutant: a failed control request is sent once more before giving up.
OpControlSettleRetrying(r, o) ==
    /\ BagIn(r, ops)
    /\ r.pc = "control"
    /\ IF o.res = "ok"
         THEN /\ ops' = (ops (-) SetToBag({r}))
                          (+) SetToBag({[r EXCEPT !.pc = "refresh",
                                                  !.fetches = @ + 1]})
              /\ lastEvent' = Event("other", "-", "-", NoOutcome, 0, 0)
              /\ UNCHANGED <<error, operationInProgress>>
         ELSE IF r.calls < 2
           THEN /\ ops' = (ops (-) SetToBag({r}))
                            (+) SetToBag({[r EXCEPT !.calls = @ + 1]})
                /\ lastEvent' = Event("other", "-", "-", NoOutcome, 0, 0)
                /\ UNCHANGED <<error, operationInProgress>>
           ELSE /\ error' = OpErrorMessage(r.kind, r.name, o)
                /\ operationInProgress' = WithoutMarker(operationInProgress, r.name)
                /\ ops' = ops (-) SetToBag({r})
                /\ lastEvent' = Event("opFailed", r.name, r.kind, o,
                                      r.calls, r.fetches)
    /\ UNCHANGED <<mounted, unmounted, storage, savePending,
                   queues, loading, lastUpdate, favorites, polls,
                   delivered, settled>>

\* The control request of invocation r comes to outcome o.  2xx: the
\* invocation calls fetchQueues and awaits it.  Otherwise: catch, then finally.
OpControlSettle(r, o) ==
    /\ BagIn(r, ops)
    /\ r.pc = "control"
    /\ IF o.res = "ok"
         THEN /\ ops' = (ops (-) SetToBag({r}))
                          (+) SetToBag({[r EXCEPT !.pc = "refresh",
                                                  !.fetches = @ + 1]})
              /\ lastEvent' = Event("other", "-", "-", NoOutcome, 0, 0)
              /\ UNCHANGED <<error, operationInProgress>>
         ELSE /\ error' = Set(error, OpErrorMessage(r.kind, r.name, o))
              /\ operationInProgress' =
                    Set(operationInProgress,
                        WithoutMarker(operationInProgress, r.name))
              /\ ops' = ops (-) SetToBag({r})
              /\ lastEvent' = Event("opFailed", r.name, r.kind, o,
                                    r.calls, r.fetches)
    /\ UNCHANGED <<mounted, unmounted, storage, savePending,
                   queues, loading, lastUpdate, favorites, polls,
                   delivered, settled>>

\* Mutant: the invocation calls fetchQueues a second time, in finally.
OpRefreshSettleTwice(r, o, t) ==
    /\ BagIn(r, ops)
    /\ r.pc = "refresh"
    /\ FetchQueuesSettle(o, t)
    /\ IF r.fetches < 2
         THEN /\ ops' = (ops (-) SetToBag({r}))
                          (+) SetToBag({[r EXCEPT !.fetches = @ + 1]})
              /\ lastEvent' = Event("other", "-", "-", NoOutcome, 0, 0)
              /\ UNCHANGED operationInProgress
         ELSE /\ operationInProgress' = WithoutMarker(operationInProgress, r.name)
              /\ ops' = ops (-) SetToBag({r})
              /\ lastEvent' = Event("opRefreshed", r.name, r.kind, o,
                                    r.calls, r.fetches)
    /\ UNCHANGED <<mounted, unmounted, storage, savePending,
                   favorites, polls>>

\* Mutant: a fetchQueues that fails throws, and the catch block of the
\* invocation sets its message.
OpRefreshSettleRethrowing(r, o, t) ==
    /\ BagIn(r, ops)
    /\ r.pc = "refresh"
    /\ IF o.res = "ok"
         THEN /\ queues' = Set(queues, o.data)
              /\ error' = Set(error, NULL)
              /\ lastUpdate' = Set(lastUpdate, t)
              /\ delivered' = Set(delivered, o.data)
         ELSE /\ error' = Set(error, OpErrorMessage(r.kind, r.name, o))
              /\ UNCHANGED <<queues, lastUpdate, delivered>>
    /\ loading' = Set(loading, FALSE)
    /\ settled' = Set(settled, TRUE)
    /\ operationInProgress' =
          Set(operationInProgress, WithoutMarker(operationInProgress, r.name))
    /\ ops' = ops (-) SetToBag({r})
    /\ lastEvent' = Event("opRefreshed", r.name, r.kind, o, r.calls, r.fetches)
    /\ UNCHANGED <<mounted, unmounted, storage, savePending,
                   favorites, polls>>

\* The fetchQueues that invocation r awaits finishes; then finally.
OpRefreshSettle(r, o, t) ==
    /\ BagIn(r, ops)
    /\ r.pc = "refresh"
    /\ FetchQueuesSettle(o, t)
    /\ operationInProgress' =
          Set(operationInProgress, WithoutMarker(operationInProgress, r.name))
    /\ ops' = ops (-) SetToBag({r})
    /\ lastEvent' = Event("opRefreshed", r.name, r.kind, o, r.calls, r.fetches)
    /\ UNCHANGED <<mounted, unmounted, storage, savePending,
                   favorites, polls>>

\* Mutant: the marker is deleted as the refresh is applied.
OpRefreshApplyUnmarking(r, o, t) ==
    /\ BagIn(r, ops)
    /\ r.pc = "refresh"
    /\ FetchQueuesSettle(o, t)
    /\ operationInProgress' =
          Set(operationInProgress, WithoutMarker(operationInProgress, r.name))
    /\ ops' = (ops (-) SetToBag({r})) (+) SetToBag({[r EXCEPT !.pc = "finally"]})
    /\ lastEvent' = Event("opApplied", r.name, r.kind, o, r.calls, r.fetches)
    /\ UNCHANGED <<mounted, unmounted, storage, savePending,
                   favorites, polls>>

\* The fetchQueues that invocation r awaits runs to its end: its setters are
\* called and its promise resolves; the invocation has not yet gone on.
OpRefreshApply(r, o, t) ==
    /\ BagIn(r, ops)
    /\ r.pc = "refresh"
    /\ FetchQueuesSettle(o, t)
    /\ ops' = (ops (-) SetToBag({r})) (+) SetToBag({[r EXCEPT !.pc = "finally"]})
    /\ lastEvent' = Event("opApplied", r.name, r.kind, o, r.calls, r.fetches)
    /\ UNCHANGED <<mounted, unmounted, storage, savePending,
                   operationInProgress, favorites, polls>>

\* The invocation goes on behind `await fetchQueues()`: the finally block.
OpFinally(r) ==
    /\ BagIn(r, ops)
    /\ r.pc = "finally"
    /\ operationInProgress' =
          Set(operationInProgress, WithoutMarker(operationInProgress, r.name))
    /\ ops' = ops (-) SetToBag({r})
    /\ lastEvent' = [lastEvent EXCEPT !.type = "opRefreshed"]
    /\ UNCHANGED <<mounted, unmounted, storage, savePending,
                   queues, loading, error, lastUpdate, favorites, polls,
                   delivered, settled>>

\* The continuation of an invocation whose fetchQueues has resolved is next
\* in the queue of microtasks: no click, timer or response comes before it.
Returned == \A r \in BagToSet(ops) : r.pc # "finally"

\* Mutant: the star only ever adds the name.
ToggledAdding(prev, name) ==
    IF Has(prev, name) THEN prev ELSE Append(prev, name)

\* The updater toggleFavorite hands to setFavorites.
Toggled(prev, name) ==
    IF Has(prev, name)
      THEN SelectSeq(prev, LAMBDA m : m # name)
      ELSE Append(prev, name)

\* The star button of a row, and the render its setFavorites asks for: the
\* updater returns a new Set, so the save effect is due.
toggleFavorite(name) ==
    /\ mounted
    /\ ~unmounted
    /\ name \in RowNames
    /\ favorites' = Toggled(favorites, name)
    /\ savePending' = TRUE
    /\ lastEvent' = Event("other", "-", "-", NoOutcome, 0, 0)
    /\ UNCHANGED <<mounted, unmounted, storage,
                   queues, loading, error, lastUpdate,
                   operationInProgress, polls, ops, delivered, settled>>

\* Mutant: a click on another column keeps the order.
handleSortKeepingOrder(field) ==
    /\ mounted
    /\ ~unmounted
    /\ IF sortField = field
         THEN /\ sortOrder' = IF sortOrder = "asc" THEN "desc" ELSE "asc"
              /\ UNCHANGED sortField
         ELSE /\ sortField' = field
              /\ UNCHANGED sortOrder
    /\ lastEvent' = Event("sort", field, "-", NoOutcome, 0, 0)
    /\ UNCHANGED <<mounted, unmounted, queues, loading, error, lastUpdate,
                   operationInProgress, favorites, storage, savePending,
                   filterText, filterType, polls, ops, delivered, settled,
                   before, server, replies, clock>>

\* A click on the header of a column.
handleSort(field) ==
    /\ mounted
    /\ ~unmounted
    /\ IF sortField = field
         THEN /\ sortOrder' = IF sortOrder = "asc" THEN "desc" ELSE "asc"
              /\ UNCHANGED sortField
         ELSE /\ sortField' = field
              /\ sortOrder' = "desc"
    /\ lastEvent' = Event("sort", field, "-", NoOutcome, 0, 0)
    /\ UNCHANGED <<mounted, unmounted, queues, loading, error, lastUpdate,
                   operationInProgress, favorites, storage, savePending,
                   filterText, filterType, polls, ops, delivered, settled,
                   before, server, replies, clock>>

\* A click on one of the radio buttons of the filter.
handleFilterTypeChange(type) ==
    /\ mounted
    /\ ~unmounted
    /\ filterType' = type
    /\ lastEvent' = Event("other", "-", "-", NoOutcome, 0, 0)
    /\ UNCHANGED <<mounted, unmounted, queues, loading, error, lastUpdate,
                   operationInProgress, favorites, storage, savePending,
                   sortField, sortOrder, filterText, polls, ops, delivered,
                   settled, before, server, replies, clock>>

\* onChange of the search input.
setFilterText(text) ==
    /\ mounted
    /\ ~unmounted
    /\ filterText' = text
    /\ lastEvent' = Event("other", "-", "-", NoOutcome, 0, 0)
    /\ UNCHANGED <<mounted, unmounted, queues, loading, error, lastUpdate,
                   operationInProgress, favorites, storage, savePending,
                   sortField, sortOrder, filterType, polls, ops, delivered,
                   settled, before, server, replies, clock>>

\* React runs the effects of a render before it renders again, and those of
\* the render after a click before the task of the click ends: while the save
\* effect is due no handler or continuation of the view has its turn.
Flushed == ~savePending

\* Mutant: the effect writes the entry once and never again.
SaveEffectOnce ==
    /\ mounted
    /\ savePending
    /\ storage' = IF storage = Entry(Stringify(<<>>))
                    THEN Entry(Stringify(favorites)) ELSE storage
    /\ savePending' = FALSE
    /\ lastEvent' = Event("other", "-", "-", NoOutcome, 0, 0)
    /\ UNCHANGED <<mounted, unmounted, queues, loading, error, lastUpdate,
                   operationInProgress, favorites, polls, ops, delivered,
                   settled>>

\* The save effect of a render whose favorites is a new Set.
SaveEffect ==
    /\ mounted
    /\ savePending
    /\ storage' = Entry(Stringify(favorites))
    /\ savePending' = FALSE
    /\ lastEvent' = Event("other", "-", "-", NoOutcome, 0, 0)
    /\ UNCHANGED <<mounted, unmounted, queues, loading, error, lastUpdate,
                   operationInProgress, favorites, polls, ops, delivered,
                   settled>>

Next ==
    \/ Mount /\ Aside
    \/ Flushed /\ Tick /\ Aside
    \/ Flushed /\ \E o \in StatsOutcomes : \E t \in Readings(o) :
          PollSettle(o, t) /\ Aside
    \/ Flushed /\ \E n \in Names, c \in BOOLEAN : purgeQueue(n, c) /\ Aside
    \/ Flushed /\ \E n \in Names, c \in BOOLEAN : deleteQueue(n, c) /\ Aside
    \/ Flushed /\ \E r \in BagToSet(ops), o \in ControlOutcomes :
          OpControlSettle(r, o) /\ Aside
    \/ Flushed /\ \E r \in BagToSet(ops), o \in StatsOutcomes :
          \E t \in Readings(o) : OpRefreshSettle(r, o, t) /\ Aside
    \/ Flushed /\ \E n \in Names : toggleFavorite(n) /\ Aside
    \/ SaveEffect /\ Aside

Spec == Init /\ [][Next]_vars

\* The view and its teardown.
LifeNext ==
    \/ Next
    \/ Unmount /\ Aside

LifeSpec == Init /\ [][LifeNext]_vars

\* The sessions of one browser: what the favorites go through, the fetch of
\* the mount that brings the rows, and the reload, which can come between a
\* render and its effects.
StoreNext ==
    \/ Mount /\ Aside
    \/ Flushed /\ \E o \in StatsOutcomes : \E t \in Readings(o) :
          PollSettle(o, t) /\ Aside
    \/ Flushed /\ \E n \in Names : toggleFavorite(n) /\ Aside
    \/ SaveEffect /\ Aside
    \/ Reload

StoreSpec == StoreInit /\ [][StoreNext]_vars

----------------------------------------------------------------------------
(* The view against one server *)

\* What the server's list becomes when it serves a control request.
Processed(kind, list, name) ==
    IF kind = "purging"
      THEN [i \in 1..Len(list) |->
              IF list[i].name = name THEN Q(name, 0, 0, 0) ELSE list[i]]
      ELSE SelectSeq(list, LAMBDA q : q.name # name)

\* replies: the body of the statistics response on its way to the fetchQueues
\* of timer or mount ("poll") or to the one a purge/delete of a queue awaits
\* (the queue's name).  The server answers a request as it is sent.
Sent(rs, tag, body) ==
    [g \in DOMAIN rs \cup {tag} |-> IF g = tag THEN body ELSE rs[g]]

Arrived(rs, tag) == [g \in DOMAIN rs \ {tag} |-> rs[g]]

Ok(body) == Outcome("ok", "200", "", body)

RaceMount ==
    /\ Mount
    /\ replies' = Sent(replies, "poll", server)
    /\ UNCHANGED <<criteria, before, server, clock>>

\* The timer fires, every request sent before it having settled.  clock: "0"
\* from the moment the last purge/delete finished to the next firing of the
\* timer, "1" from there until one polling period has gone by since that
\* moment, "due" from then on; the timer fires next after that.
RaceTick ==
    /\ polls = 0
    /\ BagCardinality(ops) = 0
    /\ clock # "1"
    /\ Tick
    /\ replies' = Sent(replies, "poll", server)
    /\ clock' = IF clock = "0" THEN "1" ELSE clock
    /\ UNCHANGED <<criteria, before, server>>

RaceDeadline ==
    /\ clock = "1"
    /\ clock' = "due"
    /\ UNCHANGED <<mounted, unmounted, queues, loading, error, lastUpdate,
                   operationInProgress, favorites, storage, savePending,
                   criteria, polls, ops, delivered, settled, lastEvent,
                   before, server, replies>>

RacePollSettle(t) ==
    /\ "poll" \in DOMAIN replies
    /\ PollSettle(Ok(replies["poll"]), t)
    /\ replies' = Arrived(replies, "poll")
    /\ UNCHANGED <<criteria, before, server, clock>>

\* The control request is served and answered 2xx; the invocation sends its
\* statistics request.
RaceControlSettle(r) ==
    /\ OpControlSettle(r, Ok(<<>>))
    /\ LET list == Processed(r.kind, server, r.name)
       IN  /\ server' = list
           /\ replies' = Sent(replies, r.name, list)
    /\ clock' = "idle"
    /\ UNCHANGED <<criteria, before>>

RaceRefreshSettle(r, t) ==
    /\ r.name \in DOMAIN replies
    /\ OpRefreshSettle(r, Ok(replies[r.name]), t)
    /\ replies' = Arrived(replies, r.name)
    /\ clock' = IF BagCardinality(ops) = 1 THEN "0" ELSE "idle"
    /\ UNCHANGED <<criteria, before, server>>

\* No request fails, every response arrives before the timer fires next, and
\* the operator confirms.
RaceNext ==
    \/ RaceMount
    \/ RaceTick
    \/ RaceDeadline
    \/ \E t \in Readings(Ok(<<>>)) : RacePollSettle(t)
    \/ \E n \in Names : purgeQueue(n, TRUE) /\ Aside
    \/ \E n \in Names : deleteQueue(n, TRUE) /\ Aside
    \/ \E r \in BagToSet(ops) : RaceControlSettle(r)
    \/ \E r \in BagToSet(ops) : \E t \in Readings(Ok(<<>>)) : RaceRefreshSettle(r, t)

RaceSpec == Init /\ [][RaceNext]_vars

----------------------------------------------------------------------------
(* The sort and filter controls *)

\* Snapshots the controls are tried on: the two queues of the other
\* specifications; three queues of which all tie on the visible count, two on
\* the invisible count, two on the lower-cased name and two on the type; a
\* queue without messages whose suffix is in capitals.
Snapshots ==
    { <<>>,
      <<Q("orders", 5, 2, 0), Q("orders.fifo", 1, 0, 3)>>,
      <<Q("Orders", 1, 0, 0), Q("orders.fifo", 1, 0, 3), Q("orders", 1, 2, 0)>>,
      <<Q("jobs.FIFO", 0, 0, 0), Q("orders", 5, 2, 0)>> }

TextBlank == <<" ">>

TextComma == <<",">>

\* ".f , JO": two terms, to be trimmed and lower-cased.
TextTwoTerms == <<".", "f", " ", ",", " ", "J", "O">>

\* "Ord,": one term and an empty one.
TextOneTerm == <<"O", "r", "d", ",">>

\* " , ,": commas and blanks.
TextCommas == <<" ", ",", " ", ",">>

\* What the operator types into the search input.
Texts == {<<>>, TextBlank, TextComma, TextCommas, TextTwoTerms, TextOneTerm}

\* One session: the fetch of the mount brings a snapshot, and the operator
\* works the columns, the radio buttons, the search input and the stars of
\* two of the queues.
ViewNext ==
    \/ Mount /\ Aside
    \/ Flushed /\ \E data \in Snapshots : \E t \in Readings(Ok(data)) :
          PollSettle(Ok(data), t) /\ Aside
    \/ Flushed /\ \E field \in SortFields : handleSort(field)
    \/ Flushed /\ \E type \in FilterTypes : handleFilterTypeChange(type)
    \/ Flushed /\ \E text \in Texts : setFilterText(text)
    \/ Flushed /\ \E n \in Names : toggleFavorite(n) /\ Aside
    \/ SaveEffect /\ Aside

ViewSpec == Init /\ [][ViewNext]_vars

\* What a statistics request can come to while the operator works the
\* controls: two queues that tie on the visible count, one of them, or a
\* failure.
PanelOutcomes ==
    { Ok(<<Q("orders.fifo", 1, 0, 3), Q("orders", 1, 2, 0)>>),
      Ok(<<Q("orders", 1, 2, 0)>>),
      Outcome("http", "500", "", <<>>) }

\* One session in which the operator sorts by two of the columns, filters,
\* purges one queue and deletes the other, with the fetch of the mount and
\* the refreshes of purge and delete.
PanelNext ==
    \/ Mount /\ Aside
    \/ Flushed /\ \E o \in PanelOutcomes : \E t \in Readings(o) :
          PollSettle(o, t) /\ Aside
    \/ Flushed /\ purgeQueue("orders", TRUE) /\ Aside
    \/ Flushed /\ deleteQueue("orders.fifo", TRUE) /\ Aside
    \/ Flushed /\ \E r \in BagToSet(ops), o \in ControlOutcomes :
          OpControlSettle(r, o) /\ Aside
    \/ Flushed /\ \E r \in BagToSet(ops), o \in PanelOutcomes :
          \E t \in Readings(o) : OpRefreshSettle(r, o, t) /\ Aside
    \/ Flushed /\ \E field \in {"name", "visible"} : handleSort(field)
    \/ Flushed /\ \E type \in {"all", "fifo"} : handleFilterTypeChange(type)
    \/ Flushed /\ \E text \in {<<>>, TextOneTerm} : setFilterText(text)

PanelSpec == Init /\ [][PanelNext]_vars

\* One session of polls, purges and deletes in which the end of the
\* fetchQueues a purge or delete awaits and the finally block are two steps.
StepNext ==
    \/ Mount /\ Aside
    \/ Returned /\ Tick /\ Aside
    \/ Returned /\ \E o \in StatsOutcomes : \E t \in Readings(o) :
          PollSettle(o, t) /\ Aside
    \/ Returned /\ \E n \in Names, c \in BOOLEAN : purgeQueue(n, c) /\ Aside
    \/ Returned /\ \E n \in Names, c \in BOOLEAN : deleteQueue(n, c) /\ Aside
    \/ Returned /\ \E r \in BagToSet(ops), o \in ControlOutcomes :
          OpControlSettle(r, o) /\ Aside
    \/ Returned /\ \E r \in BagToSet(ops), o \in StatsOutcomes :
          \E t \in Readings(o) : OpRefreshApply(r, o, t) /\ Aside
    \/ \E r \in BagToSet(ops) : OpFinally(r) /\ Aside

StepSpec == Init /\ [][StepNext]_vars

----------------------------------------------------------------------------
(* Fairness *)

\* Every fetch settles: the requests of the invocations on each queue name
\* are answered or fail in the end, and the continuation gets its turn in
\* the task queue however often the operator clicks in between (each click
\* holds it back for the one step of its effect).
OpSettles(n) ==
    /\ Flushed
    /\ \E r \in BagToSet(ops) :
          /\ r.name = n
          /\ \/ \E o \in ControlOutcomes : OpControlSettle(r, o)
             \/ \E o \in StatsOutcomes : \E t \in Readings(o) :
                   OpRefreshSettle(r, o, t)
    /\ Aside

\* React runs an effect that is due.
FairSpec ==
    /\ Spec
    /\ \A n \in Names : SF_vars(OpSettles(n))
    /\ WF_vars(SaveEffect /\ Aside)

----------------------------------------------------------------------------
(* Properties *)

\* Invocations of purgeQueue / deleteQueue on queue n in flight in bag b.
InFlight(b, n) ==
    BagCardinality([r \in {x \in BagToSet(b) : x.name = n} |-> b[r]])

\* Statistics requests sent and not yet settled.
StatsOutstanding ==
    polls + BagCardinality([r \in {x \in BagToSet(ops) : x.pc = "refresh"}
                              |-> ops[r]])

FailedCycle(e) == e.type \in {"poll", "opRefreshed"} /\ e.outcome.res # "ok"

OkCycle(e) == e.type \in {"poll", "opRefreshed"} /\ e.outcome.res = "ok"

\* C1: a fetchQueues that fails (non-2xx, fetch rejecting, body not parsing)
\* leaves queues and lastUpdate as its settle step found them, and sets error
\* to a message, which for a non-2xx response holds the status.
C1_FailedPollKeepsSnapshot ==
    /\ [](FailedCycle(lastEvent) =>
            /\ error # NULL
            /\ lastEvent.outcome.res = "http" =>
                   Contains(error, lastEvent.outcome.status))
    /\ [][FailedCycle(lastEvent') =>
            queues' = queues /\ lastUpdate' = lastUpdate]_vars

\* A poll has failed with 500 while a snapshot of an earlier poll is shown.
C1_Witness ==
    /\ lastEvent.type = "poll"
    /\ lastEvent.outcome = Outcome("http", "500", "", <<>>)
    /\ queues # <<>>
    /\ lastUpdate # NoDate

\* C2: in every state queues is exactly the data of the latest statistics
\* response that parsed (empty before the first), whole and in its order.
C2_SnapshotIsLastResponse ==
    /\ queues = delivered
    /\ OkCycle(lastEvent) => queues = lastEvent.outcome.data

\* A response without "orders" has replaced a snapshot that had it (the
\* operator starred it in a row).
C2_Witness ==
    /\ OkCycle(lastEvent)
    /\ lastEvent.outcome.data = <<Q("orders.fifo", 1, 0, 3)>>
    /\ Has(favorites, "orders")
    /\ queues = <<Q("orders.fifo", 1, 0, 3)>>

\* C3: at most one statistics request is outstanding at any moment.
C3_AtMostOneStatsRequest == StatsOutstanding <= 1

\* C4: at most one purge/delete invocation is in flight per queue name, and
\* while a name has a marker no step starts another one for it.
C4_OneOperationPerName ==
    /\ [](\A n \in Names : InFlight(ops, n) <= 1)
    /\ [][\A n \in DOMAIN operationInProgress :
             InFlight(ops', n) <= InFlight(ops, n)]_vars

\* An operation is in flight on a queue whose row is on screen.
C4_Witness ==
    \E n \in RowNames :
        n \in DOMAIN operationInProgress /\ InFlight(ops, n) = 1

\* C5: a purge or delete that is not confirmed changes no state and sends no
\* request.
C5_DeclineChangesNothing ==
    [][lastEvent'.type = "decline" =>
         UNCHANGED <<queues, loading, error, lastUpdate, operationInProgress,
                     favorites, polls, ops>>]_vars

\* Purge of "orders" was declined; no marker, no request in flight.
C5_Witness ==
    /\ lastEvent.type = "decline"
    /\ lastEvent.name = "orders"
    /\ lastEvent.kind = "purging"
    /\ DOMAIN operationInProgress = {}
    /\ BagCardinality(ops) = 0
    /\ polls = 0

\* C6: a marker that is set is removed in the end, however the requests of
\* the invocation come out (every fetch settling).
C6_MarkerEventuallyRemoved ==
    \A n \in Names :
        (n \in DOMAIN operationInProgress) ~> (n \notin DOMAIN operationInProgress)

\* An invocation has finished and its marker is gone.
C6_Witness ==
    /\ lastEvent.type \in {"opFailed", "opRefreshed"}
    /\ lastEvent.name \notin DOMAIN operationInProgress

\* C7: an invocation whose control request succeeded has made exactly one
\* statistics request when it finishes, one whose control request failed none.
C7_OneRefreshPerSuccess ==
    /\ lastEvent.type = "opRefreshed" => lastEvent.fetches = 1
    /\ lastEvent.type = "opFailed" => lastEvent.fetches = 0
    /\ \A r \in BagToSet(ops) : r.fetches = IF r.pc = "refresh" THEN 1 ELSE 0

\* A delete went through, its one refresh settled, the marker is cleared.
C7_Witness ==
    /\ lastEvent.type = "opRefreshed"
    /\ lastEvent.kind = "deleting"
    /\ lastEvent.fetches = 1
    /\ lastEvent.name \notin DOMAIN operationInProgress

C9_NoAutomaticRetry ==
    /\ \A r \in BagToSet(ops) : r.calls = 1
    /\ lastEvent.type \in {"opFailed", "opRefreshed"} => lastEvent.calls = 1
    /\ lastEvent.type = "opFailed" =>
          /\ lastEvent.name \notin DOMAIN operationInProgress
          /\ InFlight(ops, lastEvent.name) = 0

\* A delete failed and its button can be clicked again.
C9_Witness ==
    /\ lastEvent.type = "opFailed"
    /\ lastEvent.kind = "deleting"
    /\ ButtonEnabled(lastEvent.name)

\* C10: loading is true exactly until the first fetchQueues has finished and
\* never becomes true again.
C10_LoadingUntilFirstSettle ==
    /\ [](loading = ~settled)
    /\ [][~loading => ~loading']_vars

\* The first fetch failed, loading is off, and a later poll is in flight.
C10_Witness ==
    /\ ~loading
    /\ queues = <<>>
    /\ error # NULL
    /\ polls > 0

\* C11: a fetchQueues that succeeds, of timer, mount or purge/delete, leaves
\* error null whatever it held and lastUpdate at the time it read; and a step
\* that takes error from a message to null is such a success.
C11_SuccessClearsError ==
    /\ [](OkCycle(lastEvent) => error = NULL /\ lastUpdate # NoDate)
    /\ [][OkCycle(lastEvent') => lastUpdate' \in Readings(lastEvent'.outcome)]_vars
    /\ [][(error # NULL /\ error' = NULL) => OkCycle(lastEvent')]_vars

\* The fetchQueues a purge awaited succeeded: no error, a timestamp.
C11_Witness ==
    /\ lastEvent.type = "opRefreshed"
    /\ lastEvent.kind = "purging"
    /\ lastEvent.outcome.res = "ok"
    /\ error = NULL
    /\ lastUpdate = MaxTime

\* C12: a fetchQueues that fails leaves a message in error, and from a state
\* with a message every step but a fetchQueues that succeeds leads to a state
\* with a message.
C12_ErrorStaysUntilSuccess ==
    /\ [](FailedCycle(lastEvent) => error = FetchErrorMessage(lastEvent.outcome))
    /\ [][(error # NULL /\ ~OkCycle(lastEvent')) => error' # NULL]_vars

\* A poll failed with 500; the message is still there after the operator
\* declined a delete.
C12_Witness ==
    /\ error = <<"HTTP error! status: ", "500">>
    /\ lastEvent.type = "decline"
    /\ lastEvent.kind = "deleting"

\* C13: while the view is mounted the timer can fire, whatever error holds,
\* and its firing sends one more statistics request.  (polls < MaxPolls is
\* the bound of the model, Flushed the order React gives effects.)
C13_PollingNeverStops ==
    (mounted /\ ~unmounted /\ Flushed /\ polls < MaxPolls)
        => ENABLED (Tick /\ Aside /\ StatsOutstanding' = StatsOutstanding + 1)

\* A poll failed, and the timer has fired again since.
C13_Witness ==
    /\ mounted
    /\ ~unmounted
    /\ error = <<"HTTP error! status: ", "500">>
    /\ polls = MaxPolls

C16_FreshWithinOnePeriod == clock = "due" => queues = server

\* C17: in every state of a session the entry is the JSON text of favorites,
\* so also in the state a toggle leaves.
C17_PersistedOnReturn == mounted => storage = Entry(Stringify(favorites))

\* C18: when a session ends with every save effect run, the next session
\* mounts with favorites of the same members.
C18_RoundTrip ==
    [][(~mounted /\ mounted' /\ before.saved)
          => Members(favorites') = before.members]_vars

\* The operator starred "orders.fifo" alone, reloaded, and has it again.
C18_Witness ==
    /\ mounted
    /\ before = Session({"orders.fifo"}, TRUE)
    /\ favorites = <<"orders.fifo">>

\* The entries that are a JSON array of strings.
ArrayOfStrings(entry) ==
    /\ entry.present
    /\ Parse(entry.text).type = "array"

\* C19: a session that finds no entry, or one that is not a JSON array of
\* strings, mounts with no favorites and no error.
C19_CorruptLoadsEmpty ==
    [][(~mounted /\ mounted' /\ ~ArrayOfStrings(storage))
          => favorites' = <<>> /\ error' = NULL]_vars

\* C20: a step of the mounted view that finishes a fetchQueues or a purge or
\* delete, that declines one, or that sends a request, leaves favorites as it
\* is, members and order.
C20_OnlyToggleChangesFavorites ==
    [][(mounted /\ (\/ lastEvent'.type \in {"poll", "opFailed", "opRefreshed",
                                            "decline"}
                    \/ polls' # polls
                    \/ ops' # ops))
          => favorites' = favorites]_vars

\* "orders" was starred, then deleted: its row is gone, its star is kept.
C20_Witness ==
    /\ lastEvent.type = "opRefreshed"
    /\ lastEvent.kind = "deleting"
    /\ lastEvent.name = "orders"
    /\ lastEvent.outcome.res = "ok"
    /\ "orders" \notin QueueNames(queues)
    /\ Has(favorites, "orders")

\* C21: toggling the same name twice in a row gives favorites the members it
\* had, whatever they were and whatever the name (the name itself may have
\* moved to the end of the Set); and every change of favorites in a session
\* is one toggle of the name of a row.
C21_ToggleTwiceRestores ==
    /\ [](\A n \in ViewNames :
             Members(Toggled(Toggled(favorites, n), n)) = Members(favorites))
    /\ [][(mounted /\ favorites' # favorites)
             => \E n \in RowNames : favorites' = Toggled(favorites, n)]_vars

C21_Witness ==
    /\ favorites = <<"orders.fifo", "orders">>
    /\ Toggled(favorites, "orders.fifo") = <<"orders">>
    /\ Toggled(Toggled(favorites, "orders.fifo"), "orders.fifo")
         = <<"orders", "orders.fifo">>

\* The two lists hold the same records, each as often.
Permutation(a, b) ==
    /\ Len(a) = Len(b)
    /\ \A i \in 1..Len(a) :
          Cardinality({j \in 1..Len(a) : a[j] = a[i]})
            = Cardinality({j \in 1..Len(b) : b[j] = a[i]})

\* Two records of the list compare equal on the field.
Ties(list, field) ==
    \E i, j \in 1..Len(list) :
        i # j /\ Compare(list[i], list[j], field, "asc") = 0

\* C22 as stated: for one snapshot and one sort field the ascending view is
\* the descending view read backwards, ties or not, and both are
\* permutations of the filtered records.
C22_DirectionsAreReverses ==
    LET filtered == filterQueues(queues)
        up == sortQueues(filtered, sortField, "asc")
        down == sortQueues(filtered, sortField, "desc")
    IN  /\ Permutation(up, filtered)
        /\ Permutation(down, filtered)
        /\ up = Reverse(down)

\* C22, amended: both views are permutations of the filtered records; they
\* are each other's reverse exactly when no two filtered records compare
\* equal on the sort field; and a click on the active column, which leaves
\* snapshot and filter as they are, turns the rows round when there is no
\* such tie.
C22_ReversesUnlessTied ==
    /\ [](LET filtered == filterQueues(queues)
              up == sortQueues(filtered, sortField, "asc")
              down == sortQueues(filtered, sortField, "desc")
          IN  /\ Permutation(up, filtered)
              /\ Permutation(down, filtered)
              /\ (up = Reverse(down)) <=> ~Ties(filtered, sortField))
    /\ [][(lastEvent'.type = "sort" /\ sortField' = sortField
             /\ ~Ties(filterQueues(queues), sortField))
            => /\ UNCHANGED <<queues, favorites, filterText, filterType>>
               /\ sortQueues(filterQueues(queues), sortField', sortOrder')
                    = Reverse(getFilteredAndSortedQueues)]_vars

\* The active column has been clicked with three rows that tie on it: they
\* stand in the order of the snapshot, as before the click.
C22_Witness ==
    /\ lastEvent.type = "sort"
    /\ sortField = "visible"
    /\ sortOrder = "asc"
    /\ Len(queues) = 3
    /\ Ties(filterQueues(queues), sortField)
    /\ getFilteredAndSortedQueues = queues

\* Names with the suffix `.fifo` in either case.
FifoNames == {"orders.fifo", "jobs.FIFO"}

\* Where a record stands on a field, as a number: the count for the three
\* counts, the place of the lower-cased name in the alphabet for the name,
\* FIFO before Standard for the type.
Key(queue, field) ==
    CASE field = "visible" ->
            queue.statistics.approximateNumberOfVisibleMessages
      [] field = "invisible" ->
            queue.statistics.approximateNumberOfInvisibleMessages
      [] field = "total" ->
            queue.statistics.approximateNumberOfVisibleMessages
              + queue.statistics.approximateNumberOfInvisibleMessages
              + queue.statistics.approximateNumberOfMessagesDelayed
      [] field = "type" -> IF queue.name \in FifoNames THEN 1 ELSE 2
      [] field = "name" ->
            CASE queue.name = "jobs.FIFO" -> 1
              [] queue.name \in {"orders", "Orders"} -> 2
              [] queue.name = "orders.fifo" -> 3

\* The place of a record in a list that holds it once.
Place(list, queue) == CHOOSE i \in 1..Len(list) : list[i] = queue

\* C23: the rows are a permutation of the filtered records of the snapshot,
\* in the order of the selected field and direction, and rows that are equal
\* on the field stand as they stand in the snapshot, ascending and
\* descending; the two queues of the example, by total descending, are shown
\* as orders (7), orders.fifo (4).
C23_SortedAndStable ==
    LET filtered == filterQueues(queues)
        rows == getFilteredAndSortedQueues
    IN  /\ Permutation(rows, filtered)
        /\ \A i, j \in 1..Len(rows) :
              i < j =>
                LET ki == Key(rows[i], sortField)
                    kj == Key(rows[j], sortField)
                IN  /\ sortOrder = "asc" => ki <= kj
                    /\ sortOrder = "desc" => ki >= kj
                    /\ ki = kj
                         => Place(queues, rows[i]) < Place(queues, rows[j])
        /\ (/\ queues = <<Q("orders", 5, 2, 0), Q("orders.fifo", 1, 0, 3)>>
            /\ filterType = "all"
            /\ filterText = <<>>
            /\ sortField = "total"
            /\ sortOrder = "desc")
             => rows = queues

\* Three rows by name, descending: the two names that are the same but for
\* a capital stand in the order of the snapshot.
C23_Witness ==
    /\ sortField = "name"
    /\ sortOrder = "desc"
    /\ filterType = "all"
    /\ filterText = <<>>
    /\ queues = <<Q("Orders", 1, 0, 0), Q("orders.fifo", 1, 0, 3),
                  Q("orders", 1, 2, 0)>>
    /\ getFilteredAndSortedQueues
         = <<Q("orders.fifo", 1, 0, 3), Q("Orders", 1, 0, 0),
             Q("orders", 1, 2, 0)>>

\* What the selected filter type asks of a record.
TypeKeeps(queue) ==
    CASE filterType = "all" -> TRUE
      [] filterType = "standard" -> queue.name \notin FifoNames
      [] filterType = "fifo" -> queue.name \in FifoNames
      [] filterType = "withMessages" -> Key(queue, "total") > 0
      [] filterType = "favorites" -> queue.name \in Members(favorites)

\* The records of a list.
Records(list) == {list[i] : i \in 1..Len(list)}

\* C24: the type filter keeps exactly the records the selected type asks
\* for (all: every record; standard, fifo: by the suffix in either case;
\* withMessages: total above 0; favorites: members of the favorite set), in
\* the order of the snapshot, and the text filter works on what it kept: with
\* an empty text those records are the result, with any text the result is
\* taken from them.  The type fifo on the two queues of the example keeps
\* orders.fifo alone.
C24_TypeFilterFirst ==
    LET kept == SelectSeq(queues, TypeKeeps)
        result == filterQueues(queues)
    IN  /\ filterText = <<>> => result = kept
        /\ result = SelectSeq(kept, LAMBDA queue : queue \in Records(result))
        /\ (/\ queues = <<Q("orders", 5, 2, 0), Q("orders.fifo", 1, 0, 3)>>
            /\ filterType = "fifo"
            /\ filterText = <<>>)
             => result = <<Q("orders.fifo", 1, 0, 3)>>

\* The type fifo keeps the queue whose suffix is in capitals.
C24_Witness ==
    /\ filterType = "fifo"
    /\ filterText = <<>>
    /\ queues = <<Q("jobs.FIFO", 0, 0, 0), Q("orders", 5, 2, 0)>>
    /\ filterQueues(queues) = <<Q("jobs.FIFO", 0, 0, 0)>>

\* What the filter text asks of a name, term by term: no term in "" and
\* " "; none in "," and " , ,"; `.f` or `jo` in ".f , JO"; `ord` in "Ord,".
TextKeeps(queue) ==
    CASE filterText \in {<<>>, TextBlank} -> TRUE
      [] filterText \in {TextComma, TextCommas} -> FALSE
      [] filterText = TextTwoTerms -> queue.name \in {"orders.fifo", "jobs.FIFO"}
      [] filterText = TextOneTerm ->
            queue.name \in {"orders", "Orders", "orders.fifo"}

\* C25: of the records the type filter kept, the text filter keeps those
\* whose lower-cased name contains one at least of the terms of the text
\* (split at the commas, trimmed, lower-cased, the empty ones dropped); an
\* empty text or one of white space keeps them all.
C25_TextFilterAnyTerm ==
    filterQueues(queues)
      = SelectSeq(SelectSeq(queues, TypeKeeps), TextKeeps)

\* The second of two terms, typed in capitals behind a blank, finds the
\* queue jobs.FIFO, and neither term finds orders.
C25_Witness ==
    /\ filterText = TextTwoTerms
    /\ filterType = "all"
    /\ queues = <<Q("jobs.FIFO", 0, 0, 0), Q("orders", 5, 2, 0)>>
    /\ FilterTerms(filterText) = <<<<".", "f">>, <<"j", "o">>>>
    /\ filterQueues(queues) = <<Q("jobs.FIFO", 0, 0, 0)>>

\* C26: the view starts with field visible, order descending; a click on
\* the active column flips the order and keeps the field; a click on any
\* other column makes it the field, descending, whatever the order was.
C26_SortClicks ==
    /\ [](~mounted => sortField = "visible" /\ sortOrder = "desc")
    /\ [][lastEvent'.type = "sort"
            => IF lastEvent'.name = sortField
                 THEN /\ sortField' = sortField
                      /\ sortOrder' \in SortOrders \ {sortOrder}
                 ELSE /\ sortField' = lastEvent'.name
                      /\ sortOrder' = "desc"]_vars

\* The name column clicked a second time: ascending.
C26_Witness ==
    /\ lastEvent.type = "sort"
    /\ lastEvent.name = "name"
    /\ sortField = "name"
    /\ sortOrder = "asc"

\* C27: the rows are at every moment the records of the last response
\* parsed, as it came, that pass the filter selected now, in the order of
\* the field and direction selected now, ties as in the response; and the
\* step that finishes a fetchQueues of the timer or the mount, or a purge or
\* delete, leaves field, order, filter text and filter type as they are.
C27_RowsFollowCriteria ==
    /\ [](LET rows == getFilteredAndSortedQueues
              kept == SelectSeq(SelectSeq(delivered, TypeKeeps), TextKeeps)
          IN  /\ Permutation(rows, kept)
              /\ \A i, j \in 1..Len(rows) :
                    i < j =>
                      LET ki == Key(rows[i], sortField)
                          kj == Key(rows[j], sortField)
                      IN  /\ sortOrder = "asc" => ki <= kj
                          /\ sortOrder = "desc" => ki >= kj
                          /\ ki = kj => Place(delivered, rows[i])
                                          < Place(delivered, rows[j]))
    /\ [][lastEvent'.type \in {"poll", "opFailed", "opRefreshed"}
            => UNCHANGED criteria]_vars

\* A purge has finished with its refresh while the rows are sorted by name,
\* ascending, and filtered by a text: the two queues of the response are
\* shown the other way round.
C27_Witness ==
    /\ lastEvent.type = "opRefreshed"
    /\ lastEvent.outcome.res = "ok"
    /\ sortField = "name"
    /\ sortOrder = "asc"
    /\ filterText = TextOneTerm
    /\ delivered = <<Q("orders.fifo", 1, 0, 3), Q("orders", 1, 2, 0)>>
    /\ getFilteredAndSortedQueues
         = <<Q("orders", 1, 2, 0), Q("orders.fifo", 1, 0, 3)>>

\* C28: a session that finds a JSON array with a name at least mounts with
\* the names of the array as favorites and its save effect due again, though
\* the save effect of the first render has written the empty array over the
\* entry; and the step that settles the effects of the start leaves favorites
\* as loaded and writes them, so that the entry holds the names it held
\* before the session.
C28_StartKeepsPersisted ==
    /\ [][(~mounted /\ mounted' /\ ArrayOfStrings(storage)
             /\ Parse(storage.text).items # <<>>)
            => /\ Members(favorites') = Members(Parse(storage.text).items)
               /\ storage' = Entry(<<LB, RB>>)
               /\ savePending']_vars
    /\ [][(lastEvent.type = "mount" /\ savePending /\ mounted')
            => /\ ~savePending'
               /\ favorites' = favorites
               /\ ArrayOfStrings(storage')
               /\ Members(Parse(storage'.text).items) = Members(favorites)]_vars

\* A first session found two names and its start has settled: no fetch has
\* finished, so no star has been clicked.
C28_Witness ==
    /\ mounted
    /\ ~savePending
    /\ before = NoSession
    /\ ~settled
    /\ favorites = <<"orders.fifo", "orders">>
    /\ storage = Entry(Stringify(favorites))

\* C29: operationInProgress has a marker for a name exactly while a
\* confirmed purgeQueue or deleteQueue of that name has begun and not
\* finished, purging for the one and deleting for the other; with none in
\* flight the map is empty, whether or not the snapshot still has the queues
\* that were worked on.
C29_MarkerIffInFlight ==
    /\ \A n \in Names :
          n \in DOMAIN operationInProgress <=> InFlight(ops, n) > 0
    /\ \A r \in BagToSet(ops) :
          /\ r.kind \in {"purging", "deleting"}
          /\ operationInProgress[r.name] = r.kind
    /\ BagCardinality(ops) = 0 => operationInProgress = <<>>

\* A delete has finished, its refresh shows the queue gone, and nothing is
\* marked.
C29_Witness ==
    /\ lastEvent.type = "opRefreshed"
    /\ lastEvent.kind = "deleting"
    /\ lastEvent.outcome.res = "ok"
    /\ lastEvent.name \notin QueueNames(queues)
    /\ BagCardinality(ops) = 0
    /\ operationInProgress = <<>>

\* C30: purgeQueue and deleteQueue of different names can be in flight
\* together, and a step that begins or finishes one on a name, whichever
\* finishes first, leaves the marker of every other name as it is, there or
\* not and of the same kind.
C30_OtherMarkersKept ==
    /\ [][\A n \in Names :
            InFlight(ops', n) = InFlight(ops, n)
              => /\ n \in DOMAIN operationInProgress'
                      <=> n \in DOMAIN operationInProgress
                 /\ n \in DOMAIN operationInProgress
                      => operationInProgress'[n] = operationInProgress[n]]_vars
    /\ [](BagCardinality(ops) = Cardinality(DOMAIN operationInProgress))

\* The purge of orders has finished while the delete of orders.fifo, begun
\* before or after it, is still in flight and still marked.
C30_Witness ==
    /\ lastEvent.type \in {"opFailed", "opRefreshed"}
    /\ lastEvent.name = "orders"
    /\ lastEvent.kind = "purging"
    /\ InFlight(ops, "orders.fifo") = 1
    /\ operationInProgress = WithMarker(<<>>, "orders.fifo", "deleting")

\* The text is made of commas and blanks, a comma at least.
OnlyCommas(text) ==
    /\ \A i \in 1..Len(text) : text[i] \in {",", " "}
    /\ \E i \in 1..Len(text) : text[i] = ","

\* C33: a filter text of commas and blanks with a comma in it, which is not
\* empty when trimmed and has no term, leaves no row, whatever the snapshot,
\* the filter type and the favorites; it is not taken for an empty text.
C33_CommasKeepNothing ==
    OnlyCommas(filterText)
      => /\ getFilteredAndSortedQueues = <<>>
         /\ \A type \in FilterTypes :
               TextFiltered(TypeFiltered(queues, type, favorites), filterText)
                 = <<>>

\* A lone comma typed over a snapshot of two queues, filter type all.
C33_Witness ==
    /\ filterText = TextComma
    /\ filterType = "all"
    /\ Len(queues) = 2
    /\ getFilteredAndSortedQueues = <<>>

\* C32: when the control request of a purge or delete went through and the
\* fetchQueues it then awaits fails, error is the message of fetchQueues
\* (the status line of a non-2xx response, the message of a rejection) and
\* does not begin as the messages of a failed purge or delete do, the marker
\* of the queue is gone, and the step leaves queues and lastUpdate alone.
C32_FailedRefreshIsPollError ==
    /\ []((lastEvent.type = "opRefreshed" /\ lastEvent.outcome.res # "ok")
            => /\ error = (IF lastEvent.outcome.res = "http"
                             THEN <<"HTTP error! status: ",
                                    lastEvent.outcome.status>>
                             ELSE <<lastEvent.outcome.text>>)
               /\ Head(error) \notin {"Failed to purge queue \"",
                                      "Failed to delete queue \""}
               /\ lastEvent.calls = 1
               /\ lastEvent.name \notin DOMAIN operationInProgress
               /\ InFlight(ops, lastEvent.name) = 0)
    /\ [][(lastEvent'.type = "opRefreshed" /\ lastEvent'.outcome.res # "ok")
            => queues' = queues /\ lastUpdate' = lastUpdate]_vars

\* The purge of a listed queue went through, its refresh was answered 500:
\* the list is still there and the message is the one of a failed poll.
C32_Witness ==
    /\ lastEvent.type = "opRefreshed"
    /\ lastEvent.kind = "purging"
    /\ lastEvent.outcome.res = "http"
    /\ error = <<"HTTP error! status: ", "500">>
    /\ queues # <<>>
    /\ operationInProgress = <<>>

\* C31: a purge or delete whose control request went through keeps its
\* marker while the fetchQueues it awaits is under way and in the state in
\* which that fetchQueues has applied its result (the response as queues
\* and no error, or its error message); the marker goes with the step after
\* that state, which changes neither queues nor error.
C31_MarkerOutlastsRefresh ==
    /\ [](\A r \in BagToSet(ops) :
             /\ r.name \in DOMAIN operationInProgress
             /\ operationInProgress[r.name] = r.kind)
    /\ [](lastEvent.type = "opApplied"
            => /\ lastEvent.name \in DOMAIN operationInProgress
               /\ operationInProgress[lastEvent.name] = lastEvent.kind
               /\ settled
               /\ ~loading
               /\ lastEvent.outcome.res = "ok"
                    => queues = lastEvent.outcome.data /\ error = NULL
               /\ lastEvent.outcome.res # "ok" => error # NULL)
    /\ [][\A n \in Names :
            (/\ n \in DOMAIN operationInProgress
             /\ n \notin DOMAIN operationInProgress'
             /\ \E r \in BagToSet(ops) : r.name = n /\ r.pc # "control")
              => /\ lastEvent.type = "opApplied"
                 /\ lastEvent.name = n
                 /\ lastEvent'.type = "opRefreshed"
                 /\ queues' = queues
                 /\ error' = error]_vars

\* The refresh of a delete has brought a list without the queue, and the
\* queue is still marked.
C31_Witness ==
    /\ lastEvent.type = "opApplied"
    /\ lastEvent.kind = "deleting"
    /\ lastEvent.outcome.res = "ok"
    /\ queues = lastEvent.outcome.data
    /\ lastEvent.name \notin QueueNames(queues)
    /\ lastEvent.name \in DOMAIN operationInProgress
    /\ operationInProgress[lastEvent.name] = "deleting"

====
